---- MODULE Spec2Model ----
(***************************************************************************)
(* The Kanban view of SloTask (KanbanBoard in                              *)
(* src/src/components/project/CardDetailModal.tsx, lines 333-863), the     *)
(* card detail modal it opens (CardDetailModal, lines 25-291 of the same   *)
(* file) and the rows of the hosted store they read and write.             *)
(*                                                                         *)
(* The view is a single-threaded, event driven React component.  Every     *)
(* handler runs synchronously up to its first `await`; the rest of the     *)
(* handler runs when the awaited store call returns.  A handler invocation *)
(* that is waiting for the store is a task; the variables a handler closed *)
(* over when it was called (its render's `cards`, `selectedBoardId`, its   *)
(* own locals) are kept in the task, because the continuation reads those  *)
(* and not the view's current state.                                       *)
(*                                                                         *)
(* A store call is applied by the store and answered in one step.  It ends *)
(* in one of three ways: "ok", "error" (the client resolves with           *)
(* {error}, the convention every `if (error) throw error` of the file      *)
(* relies on; the store is unchanged) or "reject" (the awaited promise     *)
(* rejects; the store is unchanged).                                       *)
(***************************************************************************)
EXTENDS Integers, Sequences, FiniteSets, TLC

\* Bounds of the model.
MaxCards == 3     \* card rows the store can hold (identifiers 1..MaxCards)
MaxTasks == 2     \* handler invocations that can be awaiting the store at once
MaxOps == 2       \* moves and creates one behaviour starts
MaxFailures == 1  \* store calls that fail in one behaviour
MaxBoards == 3    \* board rows the store can hold

\* Board identifiers, in the order the store hands them out.
BoardOrder == <<"A", "B", "C", "D">>
BoardIds == {BoardOrder[k] : k \in 1 .. MaxBoards}
CardIds == 1 .. MaxCards
Titles == {"", " ", "t"}
Names == {"", " ", "n", "m"}
TagTexts == {"", " ", "a", "A", "a "}
NoCard == 0
Dates == {"", "d", "e"}
Texts == {"", " ", "c"}
UserId == "u"

\* date?.toISOString() || null (line 131) and
\* card.due_date ? new Date(card.due_date) : undefined (lines 37-39, 46): a
\* Date of the modal is "" for undefined, a stored due_date is the text of a
\* date, with the empty text for null.
ToISOString(date) == [iso |-> date]
NewDate(due) == due.iso
Outcomes == {"ok", "error", "reject"}
NoRow == [r \in {} |-> r]

VARIABLES
    dbBoards,        \* store: boards table, id -> row
    dbCards,         \* store: cards table, id -> row
    boards,          \* useState boards: sequence of board objects
    cards,           \* useState cards: board id -> sequence of card object references
    heap,            \* the card objects the view holds, reference -> object
    loading,         \* useState loading
    showCardDialog,  \* useState showCardDialog
    selectedBoardId, \* useState selectedBoardId
    newCard,         \* useState newCard (the title is the field the handlers read)
    tasks,           \* slot -> handler invocation awaiting a store call
    toast,           \* the last toast shown
    ops,             \* moves and creates started so far
    failures,        \* store calls that have failed so far
    event,           \* the user event the last step handled, if it handled one
    showBoardDialog, \* useState showBoardDialog
    newBoard,        \* useState newBoard
    editingBoardId,  \* useState editingBoardId ("" for null)
    editingBoardName, \* useState editingBoardName
    selectedCard,    \* useState selectedCard: the id of the card (NoCard for null)
    showCardDetail,  \* useState showCardDetail
    tags,            \* CardDetailModal: useState tags
    newTag,          \* CardDetailModal: useState newTag
    console,         \* the last console.error of the view
    dbDue,           \* store: the due_date column of the cards table, id -> text of a date
    dbComments,      \* store: comments table, the rows in the order of created_at
    dueDate,         \* CardDetailModal: useState dueDate ("" for undefined)
    comments,        \* CardDetailModal: useState comments
    newComment,      \* CardDetailModal: useState newComment
    drag,            \* the drag gesture in progress, as the library holds it
    viewer           \* a second browser showing the same project

vars == <<dbBoards, dbCards, boards, cards, heap, loading, showCardDialog,
          selectedBoardId, newCard, tasks, toast, ops, failures, event,
          showBoardDialog, newBoard, editingBoardId, editingBoardName,
          selectedCard, showCardDetail, tags, newTag, console,
          dbDue, dbComments, dueDate, comments, newComment, drag, viewer>>

store == <<dbBoards, dbCards>>
dialog == <<showCardDialog, selectedBoardId, newCard>>
boardDialog == <<showBoardDialog, newBoard>>
editing == <<editingBoardId, editingBoardName>>
modal == <<selectedCard, showCardDetail, tags, newTag>>
detail == <<dbDue, dbComments, dueDate, comments, newComment>>

\* A dialog that is open keeps the pointer away from the rest of the page.
DialogOpen == showCardDialog \/ showBoardDialog \/ showCardDetail

----------------------------------------------------------------------------
\* Helpers on sequences and rows.

SeqRange(s) == {s[k] : k \in 1 .. Len(s)}

\* String.prototype.trim() on the titles of the model.
Trim(s) == IF s = " " THEN "" ELSE IF s = "a " THEN "a" ELSE s

\* Array.prototype.splice(index, 1) on a copy: the array without the element
\* at the zero-based index (unchanged when the index is past the end).
RemoveAt(s, index) ==
    IF index < Len(s)
    THEN SubSeq(s, 1, index) \o SubSeq(s, index + 2, Len(s))
    ELSE s

\* Array.prototype.splice(index, 0, x) on a copy: x inserted at the
\* zero-based index, clamped to the length.
InsertAt(s, index, x) ==
    LET at == IF index > Len(s) THEN Len(s) ELSE index
    IN  SubSeq(s, 1, at) \o <<x>> \o SubSeq(s, at + 1, Len(s))

\* .update(fields).eq('id', id): the named fields of the row are replaced, the
\* others kept; no row with that id: nothing changes.
ApplyUpdate(table, id, fields) ==
    IF id \in DOMAIN table
    THEN [table EXCEPT ![id] =
            [f \in DOMAIN table[id] |->
                IF f \in DOMAIN fields THEN fields[f] ELSE table[id][f]]]
    ELSE table

\* OrderedIds without the order: the rows in any order.
OrderedIdsAnyOrder(table, ids) ==
    {s \in [1 .. Cardinality(ids) -> ids] :
        \A i, j \in 1 .. Cardinality(ids) : i < j => s[i] # s[j]}

\* .order('position'): the ids of the rows in ascending position; the order of
\* rows that share a position is the store's choice.
OrderedIds(table, ids) ==
    {s \in [1 .. Cardinality(ids) -> ids] :
        /\ \A i, j \in 1 .. Cardinality(ids) : i < j =>
              /\ s[i] # s[j]
              /\ table[s[i]].position <= table[s[j]].position}

----------------------------------------------------------------------------
\* Card objects.  A reference is <<card id, n>>; two references are the same
\* object iff they are equal.  An object nobody holds any more is dropped.

CardRefs(cs) == UNION {SeqRange(cs[b]) : b \in DOMAIN cs}

TaskRefs(t) ==
    CASE t.kind = "move" -> CardRefs(t.loc.cards) \cup SeqRange(t.loc.sourceCards)
                                \cup SeqRange(t.loc.destCards)
      [] t.kind = "create" -> CardRefs(t.loc.cards)
      [] OTHER -> {}

HeldByTasks(ts) == UNION {TaskRefs(ts[s]) : s \in DOMAIN ts}

\* A reference for a new object of card id, different from every reference in use.
FreshRef(id, inUse) ==
    <<id, CHOOSE n \in 0 .. Cardinality(inUse) :
            /\ <<id, n>> \notin inUse
            /\ \A m \in 0 .. n - 1 : <<id, m>> \in inUse>>

Collect(h, cs, ts) ==
    [r \in (CardRefs(cs) \cup HeldByTasks(ts)) |-> h[r]]

NoEvent == [type |-> "none"]

\* The store answers a call: at most MaxFailures answers are failures.
Answer(outcome) ==
    /\ outcome \in Outcomes
    /\ outcome # "ok" => failures < MaxFailures
    /\ failures' = IF outcome = "ok" THEN failures ELSE failures + 1

Idle == [kind |-> "idle", pc |-> 0, loc |-> <<>>]

FreeSlots == {s \in DOMAIN tasks : tasks[s].kind = "idle"}

AllIdle == FreeSlots = DOMAIN tasks

----------------------------------------------------------------------------
\* fetchBoards (lines 356-389).

\* The synchronous start of fetchBoards: the boards query is sent.
FetchTask == [kind |-> "fetch", pc |-> 0, loc |-> <<>>]

\* Nothing has been written to the console.
Quiet == [message |-> "", error |-> ""]

\* console.error('Error fetching boards:', error) of line 385.
FetchError(error) == [message |-> "Error fetching boards:", error |-> error]

\* Partition with every fetched card put in the sequence of board A.
PartitionFirstBoard(cardsData, h) ==
    [b \in BoardIds |-> IF b = "A" THEN cardsData ELSE <<>>]

\* cardsByBoard of lines 376-382: each fetched card goes to the sequence of its
\* own board_id, in the order the store returned.
Partition(cardsData, h) ==
    [b \in BoardIds |->
        LET InBoard(r) == h[r].board_id = b
        IN  SelectSeq(cardsData, InBoard)]

\* The boards query returns (lines 358-364).
BoardsReturn(s, outcome) ==
    /\ Answer(outcome)
    /\ tasks[s].kind = "fetch"
    /\ tasks[s].pc = 0
    /\ UNCHANGED <<detail, drag, viewer>>
    /\ event' = NoEvent
    /\ UNCHANGED <<boardDialog, editing, modal>>
    /\ console' = IF outcome = "ok" THEN console
                  ELSE FetchError(IF outcome = "error" THEN "boardsError" ELSE "rejected")
    /\ IF outcome = "ok"
       THEN /\ \E order \in OrderedIds(dbBoards, DOMAIN dbBoards) :
                 tasks' = [tasks EXCEPT ![s] =
                     [kind |-> "fetch", pc |-> 1,
                      loc |-> [boardsData |->
                                  [k \in 1 .. Len(order) |->
                                      [id |-> order[k],
                                       name |-> dbBoards[order[k]].name,
                                       position |-> dbBoards[order[k]].position]],
                               caller |-> tasks[s].loc]]]
            /\ UNCHANGED <<store, boards, cards, heap, loading, dialog, toast, ops>>
       ELSE \* catch (line 384), finally (line 387)
            /\ tasks' = [tasks EXCEPT ![s] = Idle]
            /\ loading' = FALSE
            /\ UNCHANGED <<store, boards, cards, heap, dialog, toast, ops>>

\* .in('board_id', boardsData.map(b => b.id)) of lines 366-369.
FetchedIds(boardsData) ==
    {c \in DOMAIN dbCards :
        dbCards[c].board_id \in {boardsData[k].id : k \in 1 .. Len(boardsData)}}

\* Loaded with every object at position 0 instead of its row's position.
LoadedAtPositionZero(h, cardsData) ==
    [r \in DOMAIN h \cup SeqRange(cardsData) |->
        IF r \in SeqRange(cardsData)
        THEN [id |-> r[1],
              board_id |-> dbCards[r[1]].board_id,
              position |-> 0,
              tags |-> dbCards[r[1]].tags,
              due_date |-> dbDue[r[1]]]
        ELSE h[r]]

\* The heap with the objects of a cards query result added: one new object per
\* returned row, holding the row's fields.
Loaded(h, cardsData) ==
    [r \in DOMAIN h \cup SeqRange(cardsData) |->
        IF r \in SeqRange(cardsData)
        THEN [id |-> r[1],
              board_id |-> dbCards[r[1]].board_id,
              position |-> dbCards[r[1]].position,
              tags |-> dbCards[r[1]].tags,
              due_date |-> dbDue[r[1]]]
        ELSE h[r]]

\* CardsReturn with setBoards called before the cards query is answered.
CardsReturnBoardsFirst(s, outcome) ==
    /\ Answer(outcome)
    /\ tasks[s].kind = "fetch"
    /\ tasks[s].pc = 1
    /\ UNCHANGED <<detail, drag, viewer>>
    /\ event' = NoEvent
    /\ UNCHANGED <<boardDialog, editing, modal>>
    /\ console' = IF outcome = "ok" THEN console
                  ELSE FetchError(IF outcome = "error" THEN "cardsError" ELSE "rejected")
    /\ tasks' = [tasks EXCEPT ![s] = Idle]
    /\ loading' = FALSE
    /\ boards' = tasks[s].loc.boardsData
    /\ IF outcome = "ok"
       THEN /\ \E order \in OrderedIds(dbCards, FetchedIds(tasks[s].loc.boardsData)) :
                 LET cardsData == [k \in 1 .. Len(order) |->
                                      FreshRef(order[k], HeldByTasks(tasks'))]
                     h == Loaded(heap, cardsData)
                 IN  /\ cards' = Partition(cardsData, h)
                     /\ heap' = Collect(h, cards', tasks')
            /\ UNCHANGED <<store, dialog, toast, ops>>
       ELSE /\ heap' = Collect(heap, cards, tasks')
            /\ UNCHANGED <<store, cards, dialog, toast, ops>>

\* The cards query returns (lines 366-388).
CardsReturn(s, outcome) ==
    /\ Answer(outcome)
    /\ tasks[s].kind = "fetch"
    /\ tasks[s].pc = 1
    /\ UNCHANGED <<detail, drag, viewer>>
    /\ event' = NoEvent
    /\ UNCHANGED <<boardDialog, editing, modal>>
    /\ console' = IF outcome = "ok" THEN console
                  ELSE FetchError(IF outcome = "error" THEN "cardsError" ELSE "rejected")
    /\ tasks' = [tasks EXCEPT ![s] = Idle]
    /\ loading' = FALSE
    /\ IF outcome = "ok"
       THEN /\ \E order \in OrderedIds(dbCards, FetchedIds(tasks[s].loc.boardsData)) :
                 LET cardsData == [k \in 1 .. Len(order) |->
                                      FreshRef(order[k], HeldByTasks(tasks'))]
                     h == Loaded(heap, cardsData)
                 IN  /\ boards' = tasks[s].loc.boardsData
                     /\ cards' = Partition(cardsData, h)
                     /\ heap' = Collect(h, cards', tasks')
            /\ UNCHANGED <<store, dialog, toast, ops>>
       ELSE \* catch (line 384): the state setters of lines 374-383 are not reached
            /\ heap' = Collect(heap, cards, tasks')
            /\ UNCHANGED <<store, boards, cards, dialog, toast, ops>>

----------------------------------------------------------------------------
\* handleDragEnd (lines 391-470).

NoDestination == [droppableId |-> "", index |-> -1]

\* No gesture is in progress.
NoDrag == [draggableId |-> NoCard, source |-> NoDestination]

\* The Droppables and Draggables the view renders (lines 650-652, 730-731).
Droppables == {boards[k].id : k \in 1 .. Len(boards)}

\* The drag-end events the rendered view can produce: a rendered card with its
\* column and index, and no destination or a slot of a rendered column (one
\* slot per card of the column, and one more in a column the card is not in).
Destinations(b) ==
    {NoDestination} \cup
    UNION {{[droppableId |-> t, index |-> j] :
                j \in 0 .. (IF t = b THEN Len(cards[b]) - 1 ELSE Len(cards[t]))} :
           t \in Droppables}

DragResults ==
    UNION {UNION {{[draggableId |-> heap[cards[b][i + 1]].id,
                    source |-> [droppableId |-> b, index |-> i],
                    destination |-> d] : d \in Destinations(b)} :
                  i \in 0 .. Len(cards[b]) - 1} :
           b \in Droppables}

\* DragLocals with the card put into the destination before it is taken out
\* of the source.
DragLocalsInsertFirst(result) ==
    LET sourceBoard == result.source.droppableId
        destBoard == result.destination.droppableId
        movedCard == cards[sourceBoard][result.source.index + 1]
        destCards == IF sourceBoard = destBoard
                     THEN RemoveAt(InsertAt(cards[sourceBoard],
                                            result.destination.index, movedCard),
                                   result.source.index)
                     ELSE InsertAt(cards[destBoard], result.destination.index, movedCard)
    IN  [cards |-> cards,
         cardId |-> result.draggableId,
         sourceBoard |-> sourceBoard,
         destBoard |-> destBoard,
         sourceIndex |-> result.source.index,
         destIndex |-> result.destination.index,
         movedCard |-> movedCard,
         sourceCards |-> IF sourceBoard = destBoard THEN destCards
                         ELSE RemoveAt(cards[sourceBoard], result.source.index),
         destCards |-> destCards,
         issued |-> <<>>,
         failed |-> FALSE]

\* Lines 403-417: the locals of handleDragEnd once the two splices have run.
\* When the boards are equal destCards is the array sourceCards itself.
DragLocals(result) ==
    LET sourceBoard == result.source.droppableId
        destBoard == result.destination.droppableId
        movedCard == cards[sourceBoard][result.source.index + 1]
        removed == RemoveAt(cards[sourceBoard], result.source.index)
        destCards == InsertAt(IF sourceBoard = destBoard THEN removed
                                                         ELSE cards[destBoard],
                              result.destination.index, movedCard)
    IN  [cards |-> cards,     \* the cards of the render the handler closed over
         cardId |-> result.draggableId,
         sourceBoard |-> sourceBoard,
         destBoard |-> destBoard,
         sourceIndex |-> result.source.index,
         destIndex |-> result.destination.index,
         movedCard |-> movedCard,
         sourceCards |-> IF sourceBoard = destBoard THEN destCards ELSE removed,
         destCards |-> destCards,
         issued |-> <<>>,     \* the updates sent so far
         failed |-> FALSE]    \* an update sent so far came back with an error

\* The position updates of the cards of a sequence, in the order of the sequence.
PositionUpdates(seq, h) ==
    [k \in 1 .. Len(seq) |-> [id |-> h[seq[k]].id, fields |-> [position |-> k - 1]]]

\* MoveRequests without the updates of the source sequence.
MoveRequestsNoSource(loc, h) ==
    <<[id |-> loc.cardId,
       fields |-> [board_id |-> loc.destBoard, position |-> loc.destIndex]]>>
    \o SelectSeq(PositionUpdates(loc.destCards, h), LAMBDA u : u.id # loc.cardId)

\* MoveRequests with a first update that leaves the board reference alone.
MoveRequestsKeepBoard(loc, h) ==
    <<[id |-> loc.cardId,
       fields |-> [board_id |-> loc.sourceBoard, position |-> loc.destIndex]]>>
    \o SelectSeq(PositionUpdates(loc.destCards, h), LAMBDA u : u.id # loc.cardId)
    \o (IF loc.sourceBoard # loc.destBoard
        THEN PositionUpdates(loc.sourceCards, h) ELSE <<>>)

\* MoveRequests with the updates of the source sequence before those of the
\* destination sequence.
MoveRequestsSourceFirst(loc, h) ==
    <<[id |-> loc.cardId,
       fields |-> [board_id |-> loc.destBoard, position |-> loc.destIndex]]>>
    \o (IF loc.sourceBoard # loc.destBoard
        THEN PositionUpdates(loc.sourceCards, h) ELSE <<>>)
    \o SelectSeq(PositionUpdates(loc.destCards, h), LAMBDA u : u.id # loc.cardId)

\* MoveRequests without the updates that would write the position a card of
\* the destination sequence already had in memory.
MoveRequestsChangedOnly(loc, h) ==
    <<[id |-> loc.cardId,
       fields |-> [board_id |-> loc.destBoard, position |-> loc.destIndex]]>>
    \o SelectSeq(PositionUpdates(loc.destCards, h),
                 LAMBDA u : /\ u.id # loc.cardId
                            /\ \E r \in DOMAIN h :
                                  /\ h[r].id = u.id
                                  /\ h[r].position # u.fields.position)
    \o (IF loc.sourceBoard # loc.destBoard
        THEN PositionUpdates(loc.sourceCards, h) ELSE <<>>)

\* MoveRequests with the moved card written twice: its board reference by one
\* update, its position by the next.
MoveRequestsTwoWrites(loc, h) ==
    <<[id |-> loc.cardId, fields |-> [board_id |-> loc.destBoard]],
      [id |-> loc.cardId, fields |-> [position |-> loc.destIndex]]>>
    \o SelectSeq(PositionUpdates(loc.destCards, h), LAMBDA u : u.id # loc.cardId)
    \o (IF loc.sourceBoard # loc.destBoard
        THEN PositionUpdates(loc.sourceCards, h) ELSE <<>>)

\* Lines 420-458: the updates one handleDragEnd awaits, in the order it awaits
\* them, when none of them throws.
MoveRequests(loc, h) ==
    LET first == [id |-> loc.cardId,
                  fields |-> [board_id |-> loc.destBoard, position |-> loc.destIndex]]
        updates == [k \in 1 .. Len(loc.destCards) |->
                       [id |-> h[loc.destCards[k]].id, fields |-> [position |-> k - 1]]]
        NotMoved(u) == u.id # loc.cardId
        sourceUpdates == [k \in 1 .. Len(loc.sourceCards) |->
                       [id |-> h[loc.sourceCards[k]].id, fields |-> [position |-> k - 1]]]
    IN  <<first>> \o SelectSeq(updates, NotMoved)
                  \o (IF loc.sourceBoard # loc.destBoard THEN sourceUpdates ELSE <<>>)

\* What the gesture was, for the record of the event: the card was dropped
\* outside every column, back into its own slot, or into another slot.
Drop(result) ==
    IF result.destination = NoDestination THEN "outside"
    ELSE IF result.destination = result.source THEN "in place"
    ELSE "elsewhere"

\* DragReturnsEarly without the test of lines 396-401.
DragReturnsEarlyNoDestinationOnly(result) ==
    result.destination = NoDestination

\* Lines 394-401: the two early returns.
DragReturnsEarly(result) ==
    \/ result.destination = NoDestination
    \/ /\ result.destination.droppableId = result.source.droppableId
       /\ result.destination.index = result.source.index

\* Lines 410-411: the column has no card at the reported source index, so the
\* splice yields nothing and `movedCard.board_id = destBoard` throws before
\* setCards and outside the try.
DragThrows(result) ==
    /\ ~DragReturnsEarly(result)
    /\ result.source.index >= Len(cards[result.source.droppableId])

\* A drag gesture ends: onDragEnd={handleDragEnd} (line 598) with the gesture's
\* result, up to the first await (line 422).
handleDragEnd(result) ==
    /\ ~loading
    /\ ~DialogOpen
    /\ drag' = NoDrag
    /\ UNCHANGED <<detail, viewer>>
    /\ event' = [type |-> "dragEnd", drop |-> Drop(result)]
    /\ UNCHANGED <<boardDialog, editing, modal, console>>
    /\ IF DragReturnsEarly(result) \/ DragThrows(result)
       THEN /\ UNCHANGED <<store, boards, cards, heap, loading, dialog, tasks, toast, ops, failures>>
       ELSE /\ FreeSlots # {}
            /\ ops < MaxOps
            /\ LET loc == DragLocals(result)
                   slot == CHOOSE s \in FreeSlots : \A t \in FreeSlots : s <= t
               IN  /\ cards' = [cards EXCEPT ![loc.sourceBoard] = loc.sourceCards,
                                             ![loc.destBoard] = loc.destCards]
                   /\ heap' = [heap EXCEPT ![loc.movedCard].board_id = loc.destBoard]
                   /\ tasks' = [tasks EXCEPT ![slot] =
                         [kind |-> "move", pc |-> 1,
                          loc |-> [loc EXCEPT !.issued = <<MoveRequests(loc, heap)[1]>>]]]
            /\ ops' = ops + 1
            /\ UNCHANGED <<store, boards, loading, dialog, toast, failures>>

\* The fetchBoards() the catch of handleDragEnd calls without awaiting it
\* (lines 462-463).  The task remembers the move it follows: the identifiers
\* of the cards as they were arranged before the drag, and the update that
\* was rejected.
RevertOnError(loc, pc, h) ==
    [kind |-> "fetch", pc |-> 0,
     loc |-> [before |-> [b \in BoardIds |->
                             [k \in 1 .. Len(loc.cards[b]) |-> h[loc.cards[b][k]].id]],
              at |-> pc]]

\* An update of handleDragEnd returns.  The result of the call is not looked
\* at (lines 422-428, 438-441, 453-456), so "error" goes on like "ok"; only a
\* rejected promise reaches the catch of lines 460-469.
UpdateReturn(s, outcome) ==
    /\ Answer(outcome)
    /\ tasks[s].kind = "move"
    /\ UNCHANGED <<detail, drag, viewer>>
    /\ event' = NoEvent
    /\ UNCHANGED <<boardDialog, editing, modal>>
    /\ console' = IF outcome = "reject"
                  THEN [message |-> "Error updating card position:", error |-> "rejected"]
                  ELSE console
    /\ LET loc == tasks[s].loc
           reqs == MoveRequests(loc, heap)
           req == reqs[tasks[s].pc]
       IN  IF outcome = "reject"
           THEN \* catch: fetchBoards() is called and not awaited, then the toast
                /\ tasks' = [tasks EXCEPT ![s] = RevertOnError(loc, tasks[s].pc, heap)]
                /\ toast' = "Failed to move card. Please try again."
                /\ heap' = Collect(heap, cards, tasks')
                /\ UNCHANGED <<store, boards, cards, loading, dialog, ops>>
           ELSE /\ dbCards' = IF outcome = "ok"
                              THEN ApplyUpdate(dbCards, req.id, req.fields)
                              ELSE dbCards
                /\ tasks' = [tasks EXCEPT ![s] =
                               IF tasks[s].pc < Len(reqs)
                               THEN [tasks[s] EXCEPT
                                        !.pc = @ + 1,
                                        !.loc.issued = Append(@, reqs[tasks[s].pc + 1]),
                                        !.loc.failed = @ \/ outcome = "error"]
                               ELSE Idle]
                /\ heap' = Collect(heap, cards, tasks')
                /\ UNCHANGED <<dbBoards, boards, cards, loading, dialog, toast, ops>>

----------------------------------------------------------------------------
\* The create-card dialog (lines 709-720, 801-849) and createCard (532-570).

\* The "+" of a rendered column (line 714; the trigger opens the dialog).
OpenCardDialog(b) ==
    /\ ~loading
    /\ ~DialogOpen
    /\ b \in Droppables
    /\ selectedBoardId' = b
    /\ showCardDialog' = TRUE
    /\ UNCHANGED <<detail, drag, viewer>>
    /\ event' = NoEvent
    /\ UNCHANGED <<boardDialog, editing, modal, console>>
    /\ UNCHANGED <<store, boards, cards, heap, loading, newCard, tasks, toast, ops, failures>>

\* The title input (line 815).
TypeTitle(t) ==
    /\ showCardDialog
    /\ t \in Titles \ {newCard.title}
    /\ newCard' = [newCard EXCEPT !.title = t]
    /\ UNCHANGED <<detail, drag, viewer>>
    /\ event' = NoEvent
    /\ UNCHANGED <<boardDialog, editing, modal, console>>
    /\ UNCHANGED <<store, boards, cards, heap, loading, showCardDialog,
                   selectedBoardId, tasks, toast, ops, failures>>

\* The dialog is dismissed: onOpenChange={setShowCardDialog} (line 801).
CloseCardDialog ==
    /\ showCardDialog
    /\ showCardDialog' = FALSE
    /\ UNCHANGED <<detail, drag, viewer>>
    /\ event' = NoEvent
    /\ UNCHANGED <<boardDialog, editing, modal, console>>
    /\ UNCHANGED <<store, boards, cards, heap, loading, selectedBoardId, newCard,
                   tasks, toast, ops, failures>>

\* Line 533.
CreateCardReturnsEarly == Trim(newCard.title) = "" \/ selectedBoardId = ""

CreateTasks == {s \in DOMAIN tasks : tasks[s].kind = "create"}

\* CreateLocals with a position counted from 1.
CreateLocalsOneBased ==
    [cards |-> cards,
     selectedBoardId |-> selectedBoardId,
     boardCards |-> cards[selectedBoardId],
     row |-> [board_id |-> selectedBoardId,
              position |-> Len(cards[selectedBoardId]) + 1,
              tags |-> <<>>]]

\* Lines 536-546: what createCard keeps while it awaits the insert: the cards
\* and selectedBoardId of the render it was called in, boardCards, and the row.
CreateLocals ==
    LET boardCards == cards[selectedBoardId]
    IN  [cards |-> cards,
         selectedBoardId |-> selectedBoardId,
         boardCards |-> boardCards,
         row |-> [board_id |-> selectedBoardId,
                  position |-> Len(boardCards),
                  tags |-> <<>>]]

\* The "Create Card" button (line 844), up to the await of line 537.
createCard ==
    /\ showCardDialog
    /\ UNCHANGED <<detail, drag, viewer>>
    /\ event' = [type |-> "createCard"]
    /\ UNCHANGED <<boardDialog, editing, modal, console>>
    /\ IF CreateCardReturnsEarly
       THEN UNCHANGED <<store, boards, cards, heap, loading, dialog, tasks, toast, ops, failures>>
       ELSE /\ FreeSlots # {}
            /\ ops < MaxOps
            /\ Cardinality(DOMAIN dbCards) + Cardinality(CreateTasks) < MaxCards
            /\ LET slot == CHOOSE s \in FreeSlots : \A t \in FreeSlots : s <= t
               IN  tasks' = [tasks EXCEPT ![slot] =
                               [kind |-> "create", pc |-> 0, loc |-> CreateLocals]]
            /\ ops' = ops + 1
            /\ UNCHANGED <<store, boards, cards, heap, loading, dialog, toast, failures>>

\* The id the store gives an inserted card.
NewCardId == CHOOSE c \in CardIds \ DOMAIN dbCards :
                 \A d \in CardIds \ DOMAIN dbCards : c <= d

\* The insert of createCard returns (lines 548-569).
InsertReturn(s, outcome) ==
    /\ Answer(outcome)
    /\ tasks[s].kind = "create"
    /\ UNCHANGED <<detail, drag, viewer>>
    /\ event' = NoEvent
    /\ UNCHANGED <<boardDialog, editing, modal, console>>
    /\ tasks' = [tasks EXCEPT ![s] = Idle]
    /\ IF outcome = "ok"
       THEN LET loc == tasks[s].loc
                data == FreshRef(NewCardId, DOMAIN heap)
                h == [r \in DOMAIN heap \cup {data} |->
                        IF r = data
                        THEN [id |-> NewCardId,
                              board_id |-> loc.row.board_id,
                              position |-> loc.row.position,
                              tags |-> loc.row.tags,
                              due_date |-> dbDue[NewCardId]]
                        ELSE heap[r]]
            IN  /\ dbCards' = [c \in DOMAIN dbCards \cup {NewCardId} |->
                                  IF c = NewCardId THEN loc.row ELSE dbCards[c]]
                /\ cards' = [loc.cards EXCEPT
                                ![loc.selectedBoardId] = Append(loc.boardCards, data)]
                /\ heap' = Collect(h, cards', tasks')
                /\ newCard' = [title |-> ""]
                /\ showCardDialog' = FALSE
                /\ selectedBoardId' = ""
                /\ toast' = "Card created successfully!"
                /\ UNCHANGED <<dbBoards, boards, loading, ops>>
       ELSE \* if (error) throw error, or the rejected await: the catch of line 563
            /\ toast' = "error.message"
            /\ heap' = Collect(heap, cards, tasks')
            /\ UNCHANGED <<store, boards, cards, loading, dialog, ops>>


----------------------------------------------------------------------------
\* The board dialog and createBoard (lines 472-502).

\* The Add Board button (lines 602-608).
OpenBoardDialog ==
    /\ ~loading
    /\ ~DialogOpen
    /\ showBoardDialog' = TRUE
    /\ UNCHANGED <<detail, drag, viewer>>
    /\ event' = NoEvent
    /\ UNCHANGED <<store, boards, cards, heap, loading, dialog, tasks, toast, ops,
                   failures, newBoard, editing, modal, console>>

\* onChange of the board name input (line 622).
TypeBoardName(n) ==
    /\ showBoardDialog
    /\ n \in Names \ {newBoard.name}
    /\ newBoard' = [name |-> n]
    /\ UNCHANGED <<detail, drag, viewer>>
    /\ event' = NoEvent
    /\ UNCHANGED <<store, boards, cards, heap, loading, dialog, tasks, toast, ops,
                   failures, showBoardDialog, editing, modal, console>>

\* onOpenChange={setShowBoardDialog} (line 602).
CloseBoardDialog ==
    /\ showBoardDialog
    /\ showBoardDialog' = FALSE
    /\ UNCHANGED <<detail, drag, viewer>>
    /\ event' = NoEvent
    /\ UNCHANGED <<store, boards, cards, heap, loading, dialog, tasks, toast, ops,
                   failures, newBoard, editing, modal, console>>

\* CreateBoardReturnsEarly without the trim.
CreateBoardReturnsEarlyEmptyOnly == newBoard.name = ""

\* Line 473: the early return of createBoard.
CreateBoardReturnsEarly == Trim(newBoard.name) = ""

BoardTasks == {s \in DOMAIN tasks : tasks[s].kind = "createBoard"}

\* CreateBoardLocals with a position counted from 1.
CreateBoardLocalsOneBased ==
    [boards |-> boards,
     row |-> [name |-> newBoard.name, position |-> Len(boards) + 1]]

\* Lines 476-484: what createBoard keeps across its await: the boards of its
\* render and the row it inserts.
CreateBoardLocals ==
    [boards |-> boards,
     row |-> [name |-> newBoard.name, position |-> Len(boards)]]

\* createBoard up to its await (lines 472-484).
createBoard ==
    /\ showBoardDialog
    /\ UNCHANGED <<detail, drag, viewer>>
    /\ event' = [type |-> "createBoard"]
    /\ IF CreateBoardReturnsEarly
       THEN UNCHANGED <<store, boards, cards, heap, loading, dialog, tasks, toast, ops,
                        failures, boardDialog, editing, modal, console>>
       ELSE /\ FreeSlots # {}
            /\ ops < MaxOps
            /\ Cardinality(DOMAIN dbBoards) + Cardinality(BoardTasks) < MaxBoards
            /\ LET slot == CHOOSE s \in FreeSlots : \A t \in FreeSlots : s <= t
               IN  tasks' = [tasks EXCEPT ![slot] =
                       [kind |-> "createBoard", pc |-> 0, loc |-> CreateBoardLocals]]
            /\ ops' = ops + 1
            /\ UNCHANGED <<store, boards, cards, heap, loading, dialog, toast, failures,
                           boardDialog, editing, modal, console>>

\* The identifier the store gives the inserted board.
NewBoardId ==
    BoardOrder[CHOOSE k \in 1 .. MaxBoards :
                  /\ BoardOrder[k] \notin DOMAIN dbBoards
                  /\ \A j \in 1 .. k - 1 : BoardOrder[j] \in DOMAIN dbBoards]

\* CreateBoardFailed with the dialog closed and the form cleared.
CreateBoardFailedClosesDialog ==
    /\ toast' = "error.message"
    /\ newBoard' = [name |-> ""]
    /\ showBoardDialog' = FALSE
    /\ UNCHANGED <<store, boards>>

\* The catch of createBoard (lines 495-501).
CreateBoardFailed ==
    /\ toast' = "error.message"
    /\ UNCHANGED <<store, boards, boardDialog>>

\* The insert of createBoard returns (lines 476-501).
BoardInsertReturn(s, outcome) ==
    /\ Answer(outcome)
    /\ tasks[s].kind = "createBoard"
    /\ UNCHANGED <<detail, drag, viewer>>
    /\ event' = NoEvent
    /\ tasks' = [tasks EXCEPT ![s] = Idle]
    /\ UNCHANGED <<dbCards, cards, heap, loading, dialog, ops, editing, modal, console>>
    /\ IF outcome = "ok"
       THEN LET loc == tasks[s].loc
                data == [id |-> NewBoardId, name |-> loc.row.name,
                         position |-> loc.row.position]
            IN  /\ dbBoards' = [b \in DOMAIN dbBoards \cup {NewBoardId} |->
                                   IF b = NewBoardId THEN loc.row ELSE dbBoards[b]]
                /\ boards' = Append(loc.boards, data)
                /\ newBoard' = [name |-> ""]
                /\ showBoardDialog' = FALSE
                /\ toast' = "Board created successfully!"
       ELSE CreateBoardFailed

----------------------------------------------------------------------------
\* Renaming a board: the inline editor (lines 662-701) and updateBoardName
\* (lines 504-530).

\* The title of a board is clicked (lines 697-701).
StartEditing(b) ==
    /\ ~loading
    /\ ~DialogOpen
    /\ editingBoardId # b
    /\ \E k \in 1 .. Len(boards) :
          /\ boards[k].id = b
          /\ editingBoardName' = boards[k].name
    /\ editingBoardId' = b
    /\ UNCHANGED <<detail, drag, viewer>>
    /\ event' = NoEvent
    /\ UNCHANGED <<store, boards, cards, heap, loading, dialog, tasks, toast, ops,
                   failures, boardDialog, modal, console>>

\* onChange of the inline input (line 670).
TypeEditingName(n) ==
    /\ ~loading
    /\ ~DialogOpen
    /\ editingBoardId \in Droppables
    /\ n \in Names \ {editingBoardName}
    /\ editingBoardName' = n
    /\ UNCHANGED <<detail, drag, viewer>>
    /\ event' = NoEvent
    /\ UNCHANGED <<store, boards, cards, heap, loading, dialog, tasks, toast, ops,
                   failures, boardDialog, editingBoardId, modal, console>>

\* The X button of the inline editor (line 689).
CancelEditing ==
    /\ ~loading
    /\ ~DialogOpen
    /\ editingBoardId \in Droppables
    /\ editingBoardId' = ""
    /\ UNCHANGED <<detail, drag, viewer>>
    /\ event' = NoEvent
    /\ UNCHANGED <<store, boards, cards, heap, loading, dialog, tasks, toast, ops,
                   failures, boardDialog, editingBoardName, modal, console>>

\* Line 505: the early return of updateBoardName.
RenameReturnsEarly(newName) == Trim(newName) = ""

\* Renamed with the renamed board put at the end of the list.
RenamedMovedLast(bs, boardId, newName) ==
    SelectSeq(bs, LAMBDA board : board.id # boardId)
    \o [k \in 1 .. Len(SelectSeq(bs, LAMBDA board : board.id = boardId)) |->
           [SelectSeq(bs, LAMBDA board : board.id = boardId)[k] EXCEPT !.name = newName]]

\* Lines 515-517: boards.map(board => board.id === boardId ? {...board, name:
\* newName} : board).
Renamed(bs, boardId, newName) ==
    [k \in 1 .. Len(bs) |->
        IF bs[k].id = boardId THEN [bs[k] EXCEPT !.name = newName] ELSE bs[k]]

\* updateBoardName(board.id, editingBoardName) up to its await (lines 504-511),
\* called by the check button or the Enter key of the inline editor.
updateBoardName ==
    /\ ~loading
    /\ ~DialogOpen
    /\ editingBoardId \in Droppables
    /\ UNCHANGED <<detail, drag, viewer>>
    /\ event' = [type |-> "updateBoardName"]
    /\ IF RenameReturnsEarly(editingBoardName)
       THEN UNCHANGED <<store, boards, cards, heap, loading, dialog, tasks, toast, ops,
                        failures, boardDialog, editing, modal, console>>
       ELSE /\ FreeSlots # {}
            /\ ops < MaxOps
            /\ LET slot == CHOOSE s \in FreeSlots : \A t \in FreeSlots : s <= t
               IN  tasks' = [tasks EXCEPT ![slot] =
                       [kind |-> "rename", pc |-> 0,
                        loc |-> [boards |-> boards, boardId |-> editingBoardId,
                                 newName |-> editingBoardName]]]
            /\ ops' = ops + 1
            /\ UNCHANGED <<store, boards, cards, heap, loading, dialog, toast, failures,
                           boardDialog, editing, modal, console>>

\* The update of updateBoardName returns (lines 508-529).
RenameReturn(s, outcome) ==
    /\ Answer(outcome)
    /\ tasks[s].kind = "rename"
    /\ UNCHANGED <<detail, drag, viewer>>
    /\ event' = NoEvent
    /\ tasks' = [tasks EXCEPT ![s] = Idle]
    /\ UNCHANGED <<dbCards, cards, heap, loading, dialog, ops, boardDialog,
                   editingBoardName, modal, console>>
    /\ IF outcome = "ok"
       THEN LET loc == tasks[s].loc
            IN  /\ dbBoards' = ApplyUpdate(dbBoards, loc.boardId, [name |-> loc.newName])
                /\ boards' = Renamed(loc.boards, loc.boardId, loc.newName)
                /\ editingBoardId' = ""
                /\ toast' = "Board name updated!"
       ELSE /\ toast' = "error.message"
            /\ UNCHANGED <<dbBoards, boards, editingBoardId>>

----------------------------------------------------------------------------
\* The card detail modal: openCardDetail (lines 572-575) and the tag handlers
\* of CardDetailModal (lines 94-125).

\* fetchComments up to its await (lines 50-56).
CommentsTask(cardId) == [kind |-> "comments", pc |-> 0, loc |-> [cardId |-> cardId]]

\* A card of a column is clicked (line 743).  The effect of lines 42-48 runs
\* only when the modal is given a card with another id: it calls
\* fetchComments and takes the card's tags and due date.
openCardDetail(ref) ==
    /\ ~loading
    /\ ~DialogOpen
    /\ ref \in CardRefs(cards)
    /\ selectedCard' = heap[ref].id
    /\ showCardDetail' = TRUE
    /\ event' = NoEvent
    /\ IF heap[ref].id # selectedCard
       THEN /\ FreeSlots # {}
            /\ LET slot == CHOOSE s \in FreeSlots : \A t \in FreeSlots : s <= t
               IN  tasks' = [tasks EXCEPT ![slot] = CommentsTask(heap[ref].id)]
            /\ tags' = heap[ref].tags
            /\ dueDate' = NewDate(heap[ref].due_date)
       ELSE UNCHANGED <<tasks, tags, dueDate>>
    /\ UNCHANGED <<store, boards, cards, heap, loading, dialog, toast, ops,
                   failures, boardDialog, editing, newTag, console,
                   dbDue, dbComments, comments, newComment, drag, viewer>>

\* onOpenChange={setShowCardDetail} (line 854).
CloseCardDetail ==
    /\ showCardDetail
    /\ showCardDetail' = FALSE
    /\ UNCHANGED <<detail, drag, viewer>>
    /\ event' = NoEvent
    /\ UNCHANGED <<store, boards, cards, heap, loading, dialog, tasks, toast, ops,
                   failures, boardDialog, editing, selectedCard, tags, newTag, console>>

\* onChange of the tag input (line 239).
TypeTag(t) ==
    /\ showCardDetail
    /\ t \in TagTexts \ {newTag}
    /\ newTag' = t
    /\ UNCHANGED <<detail, drag, viewer>>
    /\ event' = NoEvent
    /\ UNCHANGED <<store, boards, cards, heap, loading, dialog, tasks, toast, ops,
                   failures, boardDialog, editing, selectedCard, showCardDetail, tags,
                   console>>

\* AddTagReturnsEarly without the test for a tag the list already has.
AddTagReturnsEarlyBlankOnly == Trim(newTag) = ""

\* Line 95: the early return of addTag.
AddTagReturnsEarly == Trim(newTag) = "" \/ newTag \in SeqRange(tags)

\* updateCardTags up to its await (lines 109-114).
TagsTask(newTags) ==
    [kind |-> "tags", pc |-> 0, loc |-> [cardId |-> selectedCard, newTags |-> newTags]]

\* addTag (lines 94-101).
addTag ==
    /\ showCardDetail
    /\ UNCHANGED <<detail, drag, viewer>>
    /\ event' = [type |-> "addTag"]
    /\ IF AddTagReturnsEarly
       THEN UNCHANGED <<store, boards, cards, heap, loading, dialog, tasks, toast, ops,
                        failures, boardDialog, editing, modal, console>>
       ELSE /\ FreeSlots # {}
            /\ ops < MaxOps
            /\ tags' = Append(tags, newTag)
            /\ newTag' = ""
            /\ LET slot == CHOOSE s \in FreeSlots : \A t \in FreeSlots : s <= t
               IN  tasks' = [tasks EXCEPT ![slot] = TagsTask(tags')]
            /\ ops' = ops + 1
            /\ UNCHANGED <<store, boards, cards, heap, loading, dialog, toast, failures,
                           boardDialog, editing, selectedCard, showCardDetail, console>>

\* removeTag (lines 103-107), called by the button of one of the tags shown.
removeTag(tagToRemove) ==
    /\ showCardDetail
    /\ tagToRemove \in SeqRange(tags)
    /\ FreeSlots # {}
    /\ ops < MaxOps
    /\ UNCHANGED <<detail, drag, viewer>>
    /\ event' = [type |-> "removeTag"]
    /\ tags' = SelectSeq(tags, LAMBDA tag : tag # tagToRemove)
    /\ LET slot == CHOOSE s \in FreeSlots : \A t \in FreeSlots : s <= t
       IN  tasks' = [tasks EXCEPT ![slot] = TagsTask(tags')]
    /\ ops' = ops + 1
    /\ UNCHANGED <<store, boards, cards, heap, loading, dialog, toast, failures,
                   boardDialog, editing, selectedCard, showCardDetail, newTag, console>>

\* The update of updateCardTags returns (lines 109-125): onCardUpdate, which
\* is fetchBoards (line 855), is called when the write succeeded.
TagsReturn(s, outcome) ==
    /\ Answer(outcome)
    /\ tasks[s].kind = "tags"
    /\ UNCHANGED <<detail, drag, viewer>>
    /\ event' = NoEvent
    /\ IF outcome = "ok"
       THEN /\ dbCards' = ApplyUpdate(dbCards, tasks[s].loc.cardId,
                                      [tags |-> tasks[s].loc.newTags])
            /\ tasks' = [tasks EXCEPT ![s] = FetchTask]
            /\ UNCHANGED <<dbBoards, boards, cards, heap, loading, dialog, toast, ops,
                           boardDialog, editing, modal, console>>
       ELSE /\ tasks' = [tasks EXCEPT ![s] = Idle]
            /\ toast' = "error.message"
            /\ UNCHANGED <<store, boards, cards, heap, loading, dialog, ops,
                           boardDialog, editing, modal, console>>

----------------------------------------------------------------------------
\* The comments of the card detail modal (lines 50-92).

\* The select of fetchComments returns (lines 50-63): the comments of the
\* card, in the order of created_at.
CommentsReturn(s, outcome) ==
    /\ Answer(outcome)
    /\ tasks[s].kind = "comments"
    /\ UNCHANGED <<dbDue, dbComments, dueDate, newComment, drag, viewer>>
    /\ event' = NoEvent
    /\ tasks' = [tasks EXCEPT ![s] = Idle]
    /\ IF outcome = "ok"
       THEN /\ comments' = SelectSeq(dbComments,
                                     LAMBDA row : row.card_id = tasks[s].loc.cardId)
            /\ UNCHANGED console
       ELSE /\ console' = [message |-> "Error fetching comments:",
                           error |-> IF outcome = "error" THEN "error" ELSE "rejected"]
            /\ UNCHANGED comments
    /\ UNCHANGED <<store, boards, cards, heap, loading, dialog, toast, ops,
                   boardDialog, editing, modal>>

\* onChange of the comment box (line 273).
TypeComment(t) ==
    /\ showCardDetail
    /\ t \in Texts \ {newComment}
    /\ newComment' = t
    /\ UNCHANGED <<dbDue, dbComments, dueDate, comments, drag, viewer>>
    /\ event' = NoEvent
    /\ UNCHANGED <<store, boards, cards, heap, loading, dialog, tasks, toast, ops,
                   failures, boardDialog, editing, modal, console>>

\* Line 66: the early return of addComment.
AddCommentReturnsEarly == Trim(newComment) = ""

\* CommentRow with the id of no card.
CommentRowOfNoCard == [card_id |-> NoCard, user_id |-> UserId, content |-> newComment]

\* The row addComment inserts (lines 71-75).
CommentRow == [card_id |-> selectedCard, user_id |-> UserId, content |-> newComment]

\* addComment (lines 65-92), up to its await.
addComment ==
    /\ showCardDetail
    /\ UNCHANGED <<detail, drag, viewer>>
    /\ event' = [type |-> "addComment"]
    /\ IF AddCommentReturnsEarly
       THEN UNCHANGED <<tasks, ops>>
       ELSE /\ FreeSlots # {}
            /\ ops < MaxOps
            /\ LET slot == CHOOSE s \in FreeSlots : \A t \in FreeSlots : s <= t
               IN  tasks' = [tasks EXCEPT ![slot] =
                               [kind |-> "comment", pc |-> 0,
                                loc |-> [cardId |-> selectedCard, row |-> CommentRow]]]
            /\ ops' = ops + 1
    /\ UNCHANGED <<store, boards, cards, heap, loading, dialog, toast, failures,
                   boardDialog, editing, modal, console>>

\* The insert of addComment returns (lines 68-91): on success the box is
\* emptied and fetchComments is called without being awaited.
CommentInsertReturn(s, outcome) ==
    /\ Answer(outcome)
    /\ tasks[s].kind = "comment"
    /\ UNCHANGED <<dbDue, dueDate, comments, drag, viewer>>
    /\ event' = NoEvent
    /\ IF outcome = "ok"
       THEN /\ dbComments' = Append(dbComments, tasks[s].loc.row)
            /\ newComment' = ""
            /\ tasks' = [tasks EXCEPT ![s] = CommentsTask(tasks[s].loc.cardId)]
            /\ toast' = "Comment added"
       ELSE /\ tasks' = [tasks EXCEPT ![s] = Idle]
            /\ toast' = "error.message"
            /\ UNCHANGED <<dbComments, newComment>>
    /\ UNCHANGED <<store, boards, cards, heap, loading, dialog, ops,
                   boardDialog, editing, modal, console>>

----------------------------------------------------------------------------
\* The due date of the card detail modal (lines 127-150).

\* DueDateFields with the position of the card set as well.
DueDateFieldsWithPosition(date) == [due_date |-> ToISOString(date), position |-> 1]

\* Line 131: the fields of the update.
DueDateFields(date) == [due_date |-> ToISOString(date)]

\* The due_date column after .update(fields).eq('id', id).
ApplyDue(due, id, fields) ==
    IF id \in DOMAIN due /\ "due_date" \in DOMAIN fields
    THEN [due EXCEPT ![id] = fields.due_date]
    ELSE due

\* updateDueDate (lines 127-150), up to its await: a day of the calendar is
\* picked (line 188; picking the selected day passes undefined) or the date
\* is cleared (line 195).
updateDueDate(date) ==
    /\ showCardDetail
    /\ date \in Dates \ {dueDate}
    /\ FreeSlots # {}
    /\ ops < MaxOps
    /\ UNCHANGED <<detail, drag, viewer>>
    /\ event' = [type |-> "updateDueDate"]
    /\ LET slot == CHOOSE s \in FreeSlots : \A t \in FreeSlots : s <= t
       IN  tasks' = [tasks EXCEPT ![slot] =
                       [kind |-> "dueDate", pc |-> 0,
                        loc |-> [cardId |-> selectedCard,
                                 date |-> date,
                                 fields |-> DueDateFields(date)]]]
    /\ ops' = ops + 1
    /\ UNCHANGED <<store, boards, cards, heap, loading, dialog, toast, failures,
                   boardDialog, editing, modal, console>>

\* DueDateFailed with the picked date shown all the same.
DueDateFailedShowsDate(s) ==
    /\ tasks' = [tasks EXCEPT ![s] = Idle]
    /\ toast' = "error.message"
    /\ dueDate' = tasks[s].loc.date

\* The catch of updateDueDate (lines 143-149).
DueDateFailed(s) ==
    /\ tasks' = [tasks EXCEPT ![s] = Idle]
    /\ toast' = "error.message"
    /\ UNCHANGED dueDate

\* The update of updateDueDate returns (lines 129-149): on success the date
\* is shown and onCardUpdate, which is fetchBoards (line 855), is called.
DueDateReturn(s, outcome) ==
    /\ Answer(outcome)
    /\ tasks[s].kind = "dueDate"
    /\ UNCHANGED <<dbComments, comments, newComment, drag, viewer>>
    /\ event' = NoEvent
    /\ IF outcome = "ok"
       THEN /\ dbCards' = ApplyUpdate(dbCards, tasks[s].loc.cardId, tasks[s].loc.fields)
            /\ dbDue' = ApplyDue(dbDue, tasks[s].loc.cardId, tasks[s].loc.fields)
            /\ dueDate' = tasks[s].loc.date
            /\ tasks' = [tasks EXCEPT ![s] = FetchTask]
            /\ toast' = "Due date updated"
       ELSE /\ DueDateFailed(s)
            /\ UNCHANGED <<dbCards, dbDue>>
    /\ UNCHANGED <<dbBoards, boards, cards, heap, loading, dialog, ops,
                   boardDialog, editing, modal, console>>

----------------------------------------------------------------------------
\* The drag gesture (DragDropContext of line 598, the Draggables of line 731):
\* the library reports to onDragEnd the card and the source slot it recorded
\* when the gesture started.

\* A rendered card is picked up.
DragStart(b, i) ==
    /\ ~loading
    /\ ~DialogOpen
    /\ drag = NoDrag
    /\ b \in Droppables
    /\ i \in 0 .. Len(cards[b]) - 1
    /\ drag' = [draggableId |-> heap[cards[b][i + 1]].id,
                source |-> [droppableId |-> b, index |-> i]]
    /\ event' = NoEvent
    /\ UNCHANGED <<store, boards, cards, heap, loading, dialog, tasks, toast, ops,
                   failures, boardDialog, editing, modal, console, detail, viewer>>

\* The card is dropped: onDragEnd={handleDragEnd} (line 598).
DragEnd(d) ==
    /\ drag # NoDrag
    /\ d \in Destinations(drag.source.droppableId)
    /\ handleDragEnd([draggableId |-> drag.draggableId,
                      source |-> drag.source,
                      destination |-> d])

----------------------------------------------------------------------------
\* A second browser that opens the same project: another KanbanBoard, whose
\* effect of line 352 calls fetchBoards (lines 356-389) on the same store.

NoViewer ==
    [pc |-> 0, boardsData |-> <<>>, boards |-> <<>>,
     cards |-> [b \in BoardIds |-> <<>>], heap |-> NoRow]

view == <<boards, cards, heap, loading, dialog, tasks, toast, ops, boardDialog,
          editing, modal, console, detail, drag>>

\* The second viewer mounts (lines 352-354).
ViewerMounts ==
    /\ viewer.pc = 0
    /\ viewer' = [viewer EXCEPT !.pc = 1]
    /\ event' = NoEvent
    /\ UNCHANGED <<store, view, failures>>

\* The boards query of the second viewer returns (lines 358-364).
ViewerBoardsReturn(outcome) ==
    /\ Answer(outcome)
    /\ viewer.pc = 1
    /\ event' = NoEvent
    /\ IF outcome = "ok"
       THEN \E order \in OrderedIds(dbBoards, DOMAIN dbBoards) :
               viewer' = [viewer EXCEPT
                   !.pc = 2,
                   !.boardsData = [k \in 1 .. Len(order) |->
                                      [id |-> order[k],
                                       name |-> dbBoards[order[k]].name,
                                       position |-> dbBoards[order[k]].position]]]
       ELSE viewer' = [viewer EXCEPT !.pc = 3]
    /\ UNCHANGED <<store, view>>

\* The cards query of the second viewer returns (lines 366-388).
ViewerCardsReturn(outcome) ==
    /\ Answer(outcome)
    /\ viewer.pc = 2
    /\ event' = NoEvent
    /\ IF outcome = "ok"
       THEN \E order \in OrderedIds(dbCards, FetchedIds(viewer.boardsData)) :
               LET cardsData == [k \in 1 .. Len(order) |-> <<order[k], 0>>]
                   h == Loaded(NoRow, cardsData)
               IN  viewer' = [pc |-> 3,
                              boardsData |-> viewer.boardsData,
                              boards |-> viewer.boardsData,
                              cards |-> Partition(cardsData, h),
                              heap |-> h]
       ELSE viewer' = [viewer EXCEPT !.pc = 3]
    /\ UNCHANGED <<store, view>>

----------------------------------------------------------------------------
\* The view is mounted on a project whose boards A and B hold the cards 1..n,
\* the first m of them in A, at positions 0, 1, ... of their boards: the state
\* is the useState defaults (lines 334-349) and the effect of line 352 has
\* called fetchBoards.

Store(n, m) ==
    [c \in 1 .. n |->
        [board_id |-> IF c <= m THEN "A" ELSE "B",
         position |-> IF c <= m THEN c - 1 ELSE c - m - 1,
         tags |-> <<>>]]

\* Stores with room for new cards, and full stores.
SmallStores == {Store(MaxCards - 2, m) : m \in {0, MaxCards - 2}}
FullStores == {Store(MaxCards, m) : m \in {MaxCards - 1, MaxCards}}

\* The first n boards of the store, in order, all named "n".
BoardRows(n) ==
    [b \in {BoardOrder[k] : k \in 1 .. n} |->
        [name |-> "n",
         position |-> (CHOOSE k \in 1 .. n : BoardOrder[k] = b) - 1]]

\* The view as it is constructed (lines 334-354) over a store: every state
\* variable at its useState value, the fetchBoards of the effect started.
MountedOn(boardRows, stores) ==
    /\ dbBoards = boardRows
    /\ dbCards \in stores
    /\ boards = <<>>
    /\ cards = [b \in BoardIds |-> <<>>]
    /\ heap = NoRow
    /\ loading = TRUE
    /\ showCardDialog = FALSE
    /\ selectedBoardId = ""
    /\ newCard = [title |-> ""]
    /\ tasks = [s \in 1 .. MaxTasks |-> IF s = 1 THEN FetchTask ELSE Idle]
    /\ toast = "none"
    /\ ops = 0
    /\ failures = 0
    /\ event = NoEvent
    /\ console = Quiet
    /\ showBoardDialog = FALSE
    /\ newBoard = [name |-> ""]
    /\ editingBoardId = ""
    /\ editingBoardName = ""
    /\ selectedCard = NoCard
    /\ showCardDetail = FALSE
    /\ tags = <<>>
    /\ newTag = ""
    /\ dbDue = [c \in CardIds |-> ToISOString("")]
    /\ dbComments = <<>>
    /\ dueDate = ""
    /\ comments = <<>>
    /\ newComment = ""
    /\ drag = NoDrag
    /\ viewer = NoViewer

\* The view constructed over the boards A and B.
Mounted(stores) == MountedOn(BoardRows(MaxBoards - 1), stores)

FetchNext ==
    \/ \E s \in DOMAIN tasks, outcome \in Outcomes : BoardsReturn(s, outcome)
    \/ \E s \in DOMAIN tasks, outcome \in Outcomes : CardsReturn(s, outcome)

MoveNext ==
    \/ \E result \in DragResults : handleDragEnd(result)
    \/ \E s \in DOMAIN tasks, outcome \in Outcomes : UpdateReturn(s, outcome)

CreateNext ==
    \/ \E b \in BoardIds : OpenCardDialog(b)
    \/ \E t \in Titles : TypeTitle(t)
    \/ CloseCardDialog
    \/ createCard
    \/ \E s \in DOMAIN tasks, outcome \in Outcomes : InsertReturn(s, outcome)

\* The loads, the moves and the card creations of the view, on a store with
\* room for new cards.  The board operations and the tag edits have their own
\* specifications (BoardSpec, FormSpec, TagSpec).
Init == Mounted(SmallStores)
Next == FetchNext \/ MoveNext \/ CreateNext
Spec == Init /\ [][Next]_vars

BoardNext ==
    \/ OpenBoardDialog
    \/ \E n \in Names : TypeBoardName(n)
    \/ CloseBoardDialog
    \/ createBoard
    \/ \E s \in DOMAIN tasks, outcome \in Outcomes : BoardInsertReturn(s, outcome)

RenameNext ==
    \/ \E b \in BoardIds : StartEditing(b)
    \/ \E n \in Names : TypeEditingName(n)
    \/ CancelEditing
    \/ updateBoardName
    \/ \E s \in DOMAIN tasks, outcome \in Outcomes : RenameReturn(s, outcome)

\* Creating and renaming boards, on a store that holds board A with one card
\* and has room for new boards.
BoardInit == MountedOn(BoardRows(MaxBoards - 2), {Store(MaxCards - 2, MaxCards - 2)})
BoardSpec == BoardInit /\ [][FetchNext \/ BoardNext \/ RenameNext]_vars

\* The two creation dialogs, on a store with room for a new board and for new
\* cards.
FormSpec == Init /\ [][FetchNext \/ CreateNext \/ BoardNext]_vars

TagNext ==
    \/ \E ref \in DOMAIN heap : openCardDetail(ref)
    \/ CloseCardDetail
    \/ \E t \in TagTexts : TypeTag(t)
    \/ addTag
    \/ \E t \in TagTexts : removeTag(t)
    \/ \E s \in DOMAIN tasks, outcome \in Outcomes : TagsReturn(s, outcome)
    \/ \E s \in DOMAIN tasks, outcome \in Outcomes : CommentsReturn(s, outcome)

\* The tag edits of the card detail modal, on a store of two cards of board A,
\* the first of them with or without a tag.
TagStores ==
    {[Store(MaxCards - 1, MaxCards - 1) EXCEPT ![1].tags = ts] : ts \in {<<>>, <<"a">>}}
TagInit == Mounted(TagStores)
TagSpec == TagInit /\ [][FetchNext \/ TagNext]_vars

\* The moves of the view, on a full store.
MoveInit == Mounted(FullStores)
MoveSpec == MoveInit /\ [][FetchNext \/ MoveNext]_vars

\* The moves of the view on a full store, one at a time: a gesture ends only
\* when no handler is awaiting the store, and every store call succeeds.
SeqNext ==
    \/ \E s \in DOMAIN tasks : BoardsReturn(s, "ok")
    \/ \E s \in DOMAIN tasks : CardsReturn(s, "ok")
    \/ \E result \in DragResults : AllIdle /\ handleDragEnd(result)
    \/ \E s \in DOMAIN tasks : UpdateReturn(s, "ok")

SeqSpec == MoveInit /\ [][SeqNext]_vars

\* The moves of the view on a full store, one at a time, with updates that
\* the store rejects: the loads succeed, an update succeeds or is rejected.
RecoverNext ==
    \/ \E s \in DOMAIN tasks : BoardsReturn(s, "ok")
    \/ \E s \in DOMAIN tasks : CardsReturn(s, "ok")
    \/ \E result \in DragResults : AllIdle /\ handleDragEnd(result)
    \/ \E s \in DOMAIN tasks, outcome \in {"ok", "reject"} : UpdateReturn(s, outcome)

RecoverSpec == MoveInit /\ [][RecoverNext]_vars

DueNext ==
    \/ \E date \in Dates : updateDueDate(date)
    \/ \E s \in DOMAIN tasks, outcome \in Outcomes : DueDateReturn(s, outcome)

\* The field edits of the card detail modal, tags and due date, on a store of
\* one card of board A.
EditInit == Mounted({Store(MaxCards - 2, MaxCards - 2)})
EditSpec == EditInit /\ [][FetchNext \/ TagNext \/ DueNext]_vars

CommentNext ==
    \/ \E ref \in DOMAIN heap : openCardDetail(ref)
    \/ CloseCardDetail
    \/ \E t \in Texts : TypeComment(t)
    \/ addComment
    \/ \E s \in DOMAIN tasks, outcome \in Outcomes : CommentInsertReturn(s, outcome)
    \/ \E s \in DOMAIN tasks, outcome \in Outcomes : CommentsReturn(s, outcome)

\* The comments of the card detail modal, on a store of two cards of board A.
CommentInit == Mounted({Store(MaxCards - 1, MaxCards - 1)})
CommentSpec == CommentInit /\ [][FetchNext \/ CommentNext]_vars

\* The moves of the view on a full store with the gesture in two steps, the
\* pick-up and the drop: the loads succeed, an update succeeds or is rejected,
\* and a card is picked up only when no move is awaiting the store.
DragNext ==
    \/ \E s \in DOMAIN tasks : BoardsReturn(s, "ok")
    \/ \E s \in DOMAIN tasks : CardsReturn(s, "ok")
    \/ \E b \in BoardIds, i \in 0 .. MaxCards - 1 :
          /\ \A s \in DOMAIN tasks : tasks[s].kind # "move"
          /\ DragStart(b, i)
    \/ \E d \in Destinations(drag.source.droppableId) : DragEnd(d)
    \/ \E s \in DOMAIN tasks, outcome \in {"ok", "reject"} : UpdateReturn(s, outcome)

DragSpec == MoveInit /\ [][DragNext]_vars

\* The moves of the view on a full store, one at a time and with every store
\* call succeeding, while a second browser opens the project.
ViewerNext ==
    \/ SeqNext
    \/ ViewerMounts
    \/ ViewerBoardsReturn("ok")
    \/ ViewerCardsReturn("ok")

ViewerSpec == MoveInit /\ [][ViewerNext]_vars

----------------------------------------------------------------------------
\* What the properties below speak of.

\* The cards the store holds for board b, and whether their positions are
\* exactly 0 .. count-1, no two alike.
StoredIn(b) == {c \in DOMAIN dbCards : dbCards[c].board_id = b}

Dense(b) ==
    /\ {dbCards[c].position : c \in StoredIn(b)} = 0 .. Cardinality(StoredIn(b)) - 1
    /\ \A c, d \in StoredIn(b) : c # d => dbCards[c].position # dbCards[d].position

\* The card ids of a sequence of card objects.
Ids(seq, h) == [k \in 1 .. Len(seq) |-> h[seq[k]].id]

\* A sequence without the element x.
Without(seq, x) == SelectSeq(seq, LAMBDA y : y # x)

\* The step is the synchronous part of a handleDragEnd that applies a move, in
\* slot s; the step is the return of the last update of the move in slot s.
MoveStarts(s) == tasks[s].kind = "idle" /\ tasks'[s].kind = "move"
MoveEnds(s) == tasks[s].kind = "move" /\ tasks'[s].kind = "idle"

\* C1: run one at a time with every write succeeding, moves leave the stored
\* positions of every board exactly 0 .. count-1 without duplicates.
C1_StoredPositionsDense == AllIdle => \A b \in BoardIds : Dense(b)

\* Two moves have run to their end and card 1 has gone from A to slot 1 of B.
C1_Witness ==
    /\ AllIdle
    /\ ops >= 2
    /\ 1 \in DOMAIN dbCards
    /\ dbCards[1] = [board_id |-> "B", position |-> 1, tags |-> <<>>]

\* C2, as claimed: when the store answers an update of a move with a failure,
\* the move stops there, a reload is started and the failure is reported.
C2_FailedWriteStopsMove ==
    [][\A s \in DOMAIN tasks :
          (tasks[s].kind = "move" /\ tasks'[s] # tasks[s] /\ failures' # failures)
          => /\ tasks'[s].kind = "fetch"
             /\ toast' = "Failed to move card. Please try again."]_vars

\* C3: a move within one board takes the card at index i out and puts it in
\* at index j of the shortened sequence: it ends at index j, the other cards
\* keep their order, the length and the other boards stay as they were.
C3_SameBoardReorder ==
    [][\A s \in DOMAIN tasks :
          (MoveStarts(s) /\ tasks'[s].loc.sourceBoard = tasks'[s].loc.destBoard)
          => LET b == tasks'[s].loc.sourceBoard
                 i == tasks'[s].loc.sourceIndex
                 j == tasks'[s].loc.destIndex
                 x == cards[b][i + 1]
             IN  /\ i # j
                 /\ Len(cards'[b]) = Len(cards[b])
                 /\ cards'[b][j + 1] = x
                 /\ Without(cards'[b], x) = Without(cards[b], x)
                 /\ \A d \in BoardIds \ {b} : cards'[d] = cards[d]]_vars

\* [1, 2, 3] with the move 0 -> 2 has become [2, 3, 1].
C3_Witness ==
    \E s \in DOMAIN tasks :
        /\ tasks[s].kind = "move"
        /\ tasks[s].pc = 1
        /\ tasks[s].loc.sourceBoard = "A"
        /\ tasks[s].loc.destBoard = "A"
        /\ tasks[s].loc.sourceIndex = 0
        /\ tasks[s].loc.destIndex = 2
        /\ Ids(tasks[s].loc.cards["A"], heap) = <<1, 2, 3>>
        /\ Ids(cards["A"], heap) = <<2, 3, 1>>

\* C4: a move of the card at index i of board a to index j of another board b
\* leaves a's sequence without the card and b's sequence with the card put in
\* at index j, the card's board reference in memory b; and when its last
\* write has succeeded the store holds, for a and for b, exactly the cards of
\* the sequence, each with that board and its index as position.
C4_CrossBoardMove ==
    [][\A s \in DOMAIN tasks :
          /\ (MoveStarts(s) /\ tasks'[s].loc.sourceBoard # tasks'[s].loc.destBoard)
             => LET a == tasks'[s].loc.sourceBoard
                    b == tasks'[s].loc.destBoard
                    j == tasks'[s].loc.destIndex
                    x == cards[a][tasks'[s].loc.sourceIndex + 1]
                IN  /\ j <= Len(cards[b])
                    /\ cards'[a] = Without(cards[a], x)
                    /\ Len(cards'[a]) = Len(cards[a]) - 1
                    /\ Len(cards'[b]) = Len(cards[b]) + 1
                    /\ cards'[b][j + 1] = x
                    /\ Without(cards'[b], x) = cards[b]
                    /\ heap'[x].board_id = b
          /\ (MoveEnds(s) /\ tasks[s].loc.sourceBoard # tasks[s].loc.destBoard)
             => \A d \in {tasks[s].loc.sourceBoard, tasks[s].loc.destBoard} :
                   /\ {c \in DOMAIN dbCards' : dbCards'[c].board_id = d}
                         = SeqRange(Ids(cards'[d], heap'))
                   /\ \A k \in 1 .. Len(cards'[d]) :
                         /\ dbCards'[heap'[cards'[d][k]].id].position = k - 1
                         /\ heap'[cards'[d][k]].board_id = d]_vars

\* A = [1, 2], B = [3] and the move of card 1 from A/0 to B/1 has run to its
\* end: A = [2], B = [3, 1] in memory and in the store.
C4_Witness ==
    /\ AllIdle
    /\ ops = 1
    /\ Ids(cards["A"], heap) = <<2>>
    /\ Ids(cards["B"], heap) = <<3, 1>>
    /\ dbCards[1] = [board_id |-> "B", position |-> 1, tags |-> <<>>]
    /\ dbCards[2].position = 0
    /\ dbCards[3].position = 0

\* C5: a gesture that ends outside every column, or in the slot the card came
\* from, changes neither the boards nor the cards in memory and sends nothing
\* to the store.
C5_DropInPlaceChangesNothing ==
    [][(event'.type = "dragEnd" /\ event'.drop \in {"outside", "in place"})
       => UNCHANGED <<boards, cards, heap, tasks, dbBoards, dbCards>>]_vars

\* A card of a column of three has been dropped back into its own slot.
C5_Witness ==
    /\ event = [type |-> "dragEnd", drop |-> "in place"]
    /\ Len(cards["A"]) = 3

\* C6, as claimed: right after a move is applied in memory every card of the
\* destination sequence, and of the source sequence, has its index as its
\* position field.
C6_PositionFieldsRenumbered ==
    [][\A s \in DOMAIN tasks :
          MoveStarts(s)
          => \A d \in {tasks'[s].loc.sourceBoard, tasks'[s].loc.destBoard} :
                \A k \in 1 .. Len(cards'[d]) :
                    heap'[cards'[d][k]].position = k - 1]_vars

\* The index (from 0) of the card with id c in a sequence of card objects.
IndexOf(seq, c, h) == (CHOOSE k \in 1 .. Len(seq) : h[seq[k]].id = c) - 1

\* The cards, other than the moved one, whose index in their sequence is not
\* what it was in the cards the move started from.
Changed(loc, h) ==
    {c \in CardIds \ {loc.cardId} :
        \E d \in {loc.sourceBoard, loc.destBoard} :
            LET new == IF d = loc.destBoard THEN loc.destCards ELSE loc.sourceCards
            IN  /\ c \in SeqRange(Ids(new, h))
                /\ IndexOf(new, c, h) # IndexOf(loc.cards[d], c, h)}

\* C7, as claimed: a move sends no update for a card whose index did not change.
C7_OnlyChangedIndicesWritten ==
    \A s \in DOMAIN tasks :
        tasks[s].kind = "move"
        => \A p \in 2 .. Len(tasks[s].loc.issued) :
              tasks[s].loc.issued[p].id \in Changed(tasks[s].loc, heap)

\* C7, amended: a move that runs to its end has sent exactly one update of the
\* moved card (board and position), one position update for every other card
\* of the destination sequence and, when the boards differ, one for every card
\* of the source sequence, whether or not the card's index changed.
C7_EveryCardOfBothSequencesWritten ==
    [][\A s \in DOMAIN tasks :
          MoveEnds(s)
          => LET loc == tasks[s].loc
                 w == loc.issued
                 Once(seq) ==
                     \A k \in 1 .. Len(seq) :
                        heap[seq[k]].id # loc.cardId
                        => /\ Cardinality({p \in 2 .. Len(w) :
                                             w[p].id = heap[seq[k]].id}) = 1
                           /\ \A p \in 2 .. Len(w) :
                                 w[p].id = heap[seq[k]].id
                                 => w[p].fields = [position |-> k - 1]
             IN  /\ w[1] = [id |-> loc.cardId,
                            fields |-> [board_id |-> loc.destBoard,
                                        position |-> loc.destIndex]]
                 /\ Once(loc.destCards)
                 /\ loc.sourceBoard # loc.destBoard => Once(loc.sourceCards)
                 /\ Len(w) = Len(loc.destCards)
                      + (IF loc.sourceBoard # loc.destBoard
                         THEN Len(loc.sourceCards) ELSE 0)]_vars

\* A move within a column of three has sent all its three updates, one of them
\* for a card whose index did not change.
C7_Witness ==
    \E s \in DOMAIN tasks :
        /\ tasks[s].kind = "move"
        /\ tasks[s].loc.sourceBoard = tasks[s].loc.destBoard
        /\ Len(tasks[s].loc.issued) = 3
        /\ \E p \in 2 .. 3 :
              tasks[s].loc.issued[p].id \notin Changed(tasks[s].loc, heap)

\* C8: the updates of one move go out in a fixed order: the moved card's
\* first, then the other cards of the destination sequence by ascending
\* index, then (boards differing) the cards of the source sequence by
\* ascending index; the move has sent one update more than it has had answers.
C8_WriteOrder ==
    \A s \in DOMAIN tasks :
        tasks[s].kind = "move"
        => LET loc == tasks[s].loc
               w == loc.issued
               cross == loc.sourceBoard # loc.destBoard
               IsDest(p) == w[p].id \in SeqRange(Ids(loc.destCards, heap))
               IsSource(p) == cross /\ w[p].id \in SeqRange(Ids(loc.sourceCards, heap))
           IN  /\ Len(w) = tasks[s].pc
               /\ w[1].id = loc.cardId
               /\ DOMAIN w[1].fields = {"board_id", "position"}
               /\ \A p \in 2 .. Len(w) :
                     /\ DOMAIN w[p].fields = {"position"}
                     /\ IsDest(p) # IsSource(p)
               /\ \A p, q \in 2 .. Len(w) :
                     p < q
                     => /\ ~(IsSource(p) /\ IsDest(q))
                        /\ IsDest(p) = IsDest(q)
                           => w[p].fields.position < w[q].fields.position

\* A move to another board has sent the moved card's update, then one for a
\* card of the destination, then one for a card of the source.
C8_Witness ==
    \E s \in DOMAIN tasks :
        /\ tasks[s].kind = "move"
        /\ tasks[s].loc.sourceBoard # tasks[s].loc.destBoard
        /\ Len(tasks[s].loc.issued) = 3
        /\ tasks[s].loc.issued[2].id \in SeqRange(Ids(tasks[s].loc.destCards, heap))
        /\ tasks[s].loc.issued[3].id \in SeqRange(Ids(tasks[s].loc.sourceCards, heap))

\* C9: createCard called on a board whose sequence has N cards inserts a row
\* with position N, that board and no tags; when the insert succeeds the
\* board's sequence is the N cards the call saw followed by the new card.
C9_CreateAppends ==
    [][\A s \in DOMAIN tasks :
          /\ (tasks[s].kind = "idle" /\ tasks'[s].kind = "create")
             => /\ selectedBoardId \in BoardIds
                /\ tasks'[s].loc.boardCards = cards[selectedBoardId]
                /\ tasks'[s].loc.row = [board_id |-> selectedBoardId,
                                        position |-> Len(cards[selectedBoardId]),
                                        tags |-> <<>>]
          /\ (tasks[s].kind = "create" /\ tasks'[s].kind = "idle"
                /\ dbCards' # dbCards)
             => LET loc == tasks[s].loc
                    b == loc.selectedBoardId
                    n == Len(loc.boardCards)
                    new == DOMAIN dbCards' \ DOMAIN dbCards
                IN  /\ Cardinality(new) = 1
                    /\ \A c \in DOMAIN dbCards : dbCards'[c] = dbCards[c]
                    /\ \A c \in new :
                          dbCards'[c] = [board_id |-> b, position |-> n, tags |-> <<>>]
                    /\ Len(cards'[b]) = n + 1
                    /\ SubSeq(cards'[b], 1, n) = loc.boardCards
                    /\ heap'[cards'[b][n + 1]].id \in new
                    /\ heap'[cards'[b][n + 1]].position = n
                    /\ heap'[cards'[b][n + 1]].board_id = b
                    /\ heap'[cards'[b][n + 1]].tags = <<>>]_vars

\* A card has been created on a board that held one card.
C9_Witness ==
    /\ AllIdle
    /\ toast = "Card created successfully!"
    /\ Cardinality(DOMAIN dbCards) = 2
    /\ \E b \in BoardIds :
          /\ Len(cards[b]) = 2
          /\ heap[cards[b][2]].position = 1

\* C10, as claimed: whenever the view is idle after creates and moves that
\* were started while it was idle or awaiting the store, and no store call
\* has failed, the stored positions of every board are 0 .. N-1, no two alike.
C10_StoredPositionsDenseWhenIdle ==
    (AllIdle /\ failures = 0) => \A b \in BoardIds : Dense(b)

\* C11, as claimed: in every state of the view no card is held twice, in one
\* sequence or in two, and every card held in a board's sequence has that
\* board as its board reference.
C11_EveryCardInOneBoard ==
    /\ \A b \in BoardIds :
          \A k \in 1 .. Len(cards[b]) : heap[cards[b][k]].board_id = b
    /\ \A b, d \in BoardIds :
          \A k \in 1 .. Len(cards[b]), l \in 1 .. Len(cards[d]) :
              heap[cards[b][k]].id = heap[cards[d][l]].id => (b = d /\ k = l)

\* C12: when a query of fetchBoards fails the load stops there, and the board
\* list, the card sequences and the cards in them stay as they were, also
\* when it is the cards query that fails after the boards query succeeded.
C12_FailedLoadKeepsState ==
    [][\A s \in DOMAIN tasks :
          (tasks[s].kind = "fetch" /\ tasks'[s] # tasks[s] /\ failures' # failures)
          => /\ tasks'[s] = Idle
             /\ boards' = boards
             /\ cards' = cards
             /\ \A r \in CardRefs(cards) : heap'[r] = heap[r]]_vars

\* The cards query of a reload has failed after a tag was written: the view
\* still holds its two boards and the card without the tag.
C12_Witness ==
    /\ console = FetchError("cardsError")
    /\ AllIdle
    /\ Len(boards) = 2
    /\ Len(cards["A"]) = 2
    /\ \E r \in SeqRange(cards["A"]) : heap[r].tags # dbCards[heap[r].id].tags

\* C13: createBoard with an empty or blank name, and createCard with an empty
\* or blank title or with no board selected, send nothing to the store and
\* leave the boards, the cards, the two dialogs and their forms as they were.
C13_BlankInputReturnsEarly ==
    [][((event'.type = "createBoard" /\ newBoard.name \in {"", " "})
        \/ (event'.type = "createCard"
              /\ (newCard.title \in {"", " "} \/ selectedBoardId = "")))
       => UNCHANGED <<dbBoards, dbCards, boards, cards, heap, tasks, toast, loading,
                      showCardDialog, selectedBoardId, newCard, showBoardDialog,
                      newBoard>>]_vars

\* createBoard has been called with a name of one space.
C13_Witness ==
    /\ event = [type |-> "createBoard"]
    /\ newBoard.name = " "
    /\ Len(boards) = 2

\* The cards in memory are those of the store: every board's sequence holds
\* the cards the store has on that board, in the order of their positions.
MatchesStore(cs, h, table) ==
    \A b \in BoardIds :
        /\ SeqRange(Ids(cs[b], h)) = {c \in DOMAIN table : table[c].board_id = b}
        /\ \A k, l \in 1 .. Len(cs[b]) :
              k < l => /\ h[cs[b][k]].id # h[cs[b][l]].id
                       /\ table[h[cs[b][k]].id].position <= table[h[cs[b][l]].id].position

\* C14, as claimed: whenever no operation of the view is pending and no load
\* has failed, the card sequences in memory are the cards of the store
\* grouped by board and ordered by position.
C14_IdleViewMatchesStore ==
    (AllIdle /\ console.message # "Error fetching boards:")
    => MatchesStore(cards, heap, dbCards)

\* The load that follows a rejected update of a move has returned: the task
\* is the one RevertOnError started and the cards query has succeeded.
Reverted(s) ==
    /\ tasks[s].kind = "fetch"
    /\ tasks[s].pc = 1
    /\ tasks[s].loc.caller # <<>>
    /\ tasks'[s].kind = "idle"
    /\ failures' = failures

C16_FailedCreateKeepsDialog ==
    [][\A s \in DOMAIN tasks :
          (tasks[s].kind \in {"createBoard", "create"} /\ tasks'[s] # tasks[s]
             /\ failures' # failures)
          => /\ tasks'[s] = Idle
             /\ toast' = "error.message"
             /\ \A r \in CardRefs(cards) : heap'[r] = heap[r]
             /\ UNCHANGED <<dbBoards, dbCards, boards, cards, showCardDialog,
                            selectedBoardId, newCard, showBoardDialog, newBoard>>]_vars

\* The insert of a board named "n" has failed: the board dialog is open with
\* the name in it and the view holds the two boards it had.
C16_Witness ==
    /\ toast = "error.message"
    /\ AllIdle
    /\ ops = 1
    /\ showBoardDialog
    /\ newBoard.name = "n"
    /\ newCard.title = ""
    /\ Len(boards) = 2
    /\ DOMAIN dbBoards = {"A", "B"}

\* C17: createBoard with a name that is not blank inserts a row with that name
\* and, as position, the number of boards of the list it read; when the insert
\* succeeds the board list is that list followed by the new board, and the
\* cards in memory and in the store are as they were.
C17_CreateBoardAppends ==
    [][\A s \in DOMAIN tasks :
          /\ (tasks[s].kind = "idle" /\ tasks'[s].kind = "createBoard")
             => /\ newBoard.name \notin {"", " "}
                /\ tasks'[s].loc.boards = boards
                /\ tasks'[s].loc.row = [name |-> newBoard.name, position |-> Len(boards)]
          /\ (tasks[s].kind = "createBoard" /\ tasks'[s].kind = "idle"
                /\ failures' = failures)
             => LET loc == tasks[s].loc
                    n == Len(loc.boards)
                    new == DOMAIN dbBoards' \ DOMAIN dbBoards
                IN  /\ Cardinality(new) = 1
                    /\ \A b \in DOMAIN dbBoards : dbBoards'[b] = dbBoards[b]
                    /\ \A b \in new :
                          dbBoards'[b] = [name |-> loc.row.name, position |-> n]
                    /\ Len(boards') = n + 1
                    /\ SubSeq(boards', 1, n) = loc.boards
                    /\ boards'[n + 1].id \in new
                    /\ boards'[n + 1].name = loc.row.name
                    /\ boards'[n + 1].position = n
                    /\ UNCHANGED <<cards, heap, dbCards>>]_vars

\* Board B has been created after board A: it is the second of the list, at
\* position 1.
C17_Witness ==
    /\ AllIdle
    /\ toast = "Board created successfully!"
    /\ Len(boards) = 2
    /\ boards[1].id = "A"
    /\ boards[2] = [id |-> "B", name |-> "m", position |-> 1]
    /\ dbBoards["B"].position = 1

\* C18, as claimed: whenever the view is idle after createBoard and
\* updateBoardName calls, overlapping or not, none of which failed, the stored
\* positions of the boards are 0 .. N-1, no two alike.
C18_BoardPositionsDense ==
    (AllIdle /\ failures = 0)
    => /\ {dbBoards[b].position : b \in DOMAIN dbBoards}
             = 0 .. Cardinality(DOMAIN dbBoards) - 1
       /\ \A b, d \in DOMAIN dbBoards :
             b # d => dbBoards[b].position # dbBoards[d].position

\* C20: updateBoardName with a blank name changes nothing and sends nothing;
\* when its write fails the board list and the store are as they were; when
\* it succeeds the store row of the board differs in its name only, and the
\* board list is the list the call read with the name of that board replaced:
\* same boards, same order, same positions.  The cards are as they were.
C20_RenameChangesOnlyName ==
    [][/\ (event'.type = "updateBoardName" /\ editingBoardName \in {"", " "})
          => UNCHANGED <<dbBoards, dbCards, boards, cards, heap, tasks, toast>>
       /\ \A s \in DOMAIN tasks :
             (tasks[s].kind = "rename" /\ tasks'[s] # tasks[s])
             => LET loc == tasks[s].loc
                IN  /\ UNCHANGED <<cards, heap, dbCards>>
                    /\ IF failures' # failures
                       THEN UNCHANGED <<boards, dbBoards>>
                       ELSE /\ DOMAIN dbBoards' = DOMAIN dbBoards
                            /\ \A b \in DOMAIN dbBoards :
                                  /\ dbBoards'[b].position = dbBoards[b].position
                                  /\ dbBoards'[b].name =
                                        IF b = loc.boardId THEN loc.newName
                                        ELSE dbBoards[b].name
                            /\ Len(boards') = Len(loc.boards)
                            /\ \A k \in 1 .. Len(loc.boards) :
                                  /\ boards'[k].id = loc.boards[k].id
                                  /\ boards'[k].position = loc.boards[k].position
                                  /\ boards'[k].name =
                                        IF loc.boards[k].id = loc.boardId
                                        THEN loc.newName ELSE loc.boards[k].name]_vars

\* Board A, the first of two boards, has been renamed "m".
C20_Witness ==
    /\ AllIdle
    /\ toast = "Board name updated!"
    /\ Len(boards) = 2
    /\ boards[1] = [id |-> "A", name |-> "m", position |-> 0]
    /\ boards[2].id = "B"
    /\ boards[2].name = "n"
    /\ dbBoards["A"] = [name |-> "m", position |-> 0]

\* A sequence that has no element twice.
NoDuplicates(seq) == \A i, j \in 1 .. Len(seq) : i # j => seq[i] # seq[j]

\* C19: the tag list of the modal never has a string twice; addTag of a blank
\* string, or of a string the list has already (the very string, letter case
\* and spaces included), changes nothing and sends nothing to the store; any
\* other string is put at the end of the list.
C19_TagsNeverRepeat ==
    [][/\ NoDuplicates(tags')
       /\ event'.type = "addTag"
          => IF newTag \in {"", " "} \/ \E k \in 1 .. Len(tags) : tags[k] = newTag
             THEN UNCHANGED <<tags, newTag, tasks, dbBoards, dbCards, boards, cards,
                              heap, toast, selectedCard, showCardDetail>>
             ELSE tags' = Append(tags, newTag)]_vars

\* addTag has been called with "a" typed while the list is ["A", "a"].
C19_Witness ==
    /\ event = [type |-> "addTag"]
    /\ newTag = "a"
    /\ tags = <<"A", "a">>


\* The cards query of a load in slot s has returned with rows.
LoadCompletes(s) ==
    /\ tasks[s].kind = "fetch"
    /\ tasks[s].pc = 1
    /\ tasks'[s].kind = "idle"
    /\ failures' = failures

\* C23: a successful load replaces the state in memory with the boards of the
\* project in ascending position and with a partition of the fetched cards:
\* every card is in the sequence of its own board_id and in no other, every
\* sequence is in the ascending position order of the store, its objects hold
\* the fields of the rows, and a board without cards has the empty sequence.
C23_LoadReplacesState ==
    [][\A s \in DOMAIN tasks :
          LoadCompletes(s)
          => /\ {boards'[k].id : k \in 1 .. Len(boards')} = DOMAIN dbBoards
             /\ \A k, l \in 1 .. Len(boards') :
                   k < l => /\ boards'[k].id # boards'[l].id
                            /\ boards'[k].position <= boards'[l].position
             /\ \A k \in 1 .. Len(boards') :
                   boards'[k].position = dbBoards[boards'[k].id].position
             /\ MatchesStore(cards', heap', dbCards)
             /\ \A b \in BoardIds :
                   /\ \A k \in 1 .. Len(cards'[b]) :
                         LET card == heap'[cards'[b][k]]
                         IN  /\ card.board_id = b
                             /\ card.position = dbCards[card.id].position
                             /\ card.tags = dbCards[card.id].tags
                   /\ StoredIn(b) = {} => cards'[b] = <<>>]_vars

\* The load of the mount has completed on a store whose cards are all on
\* board A: A shows the three cards in order and B the empty sequence.
C23_Witness ==
    /\ AllIdle
    /\ ~loading
    /\ ops = 0
    /\ Len(boards) = 2
    /\ Ids(cards["A"], heap) = <<1, 2, 3>>
    /\ cards["B"] = <<>>


\* C24: the board reference and the new position of a moved card are set by
\* one write of one row.  A stored card changes its board reference only in
\* the step that applies the first update of the move of that card, and that
\* step leaves the row with the destination board and the destination index;
\* whenever that update changes the row, the row has both afterwards; the
\* later updates of the move leave the row of the moved card alone.
C24_OwnershipTransferAtomic ==
    [][/\ \A c \in DOMAIN dbCards :
             dbCards'[c].board_id # dbCards[c].board_id
             => \E s \in DOMAIN tasks :
                   /\ tasks[s].kind = "move"
                   /\ tasks[s].pc = 1
                   /\ tasks'[s] # tasks[s]
                   /\ tasks[s].loc.cardId = c
                   /\ dbCards'[c].board_id = tasks[s].loc.destBoard
                   /\ dbCards'[c].position = tasks[s].loc.destIndex
       /\ \A s \in DOMAIN tasks :
             (tasks[s].kind = "move" /\ tasks'[s] # tasks[s])
             => LET c == tasks[s].loc.cardId
                IN  IF tasks[s].pc = 1
                    THEN \/ dbCards'[c] = dbCards[c]
                         \/ /\ dbCards'[c].board_id = tasks[s].loc.destBoard
                            /\ dbCards'[c].position = tasks[s].loc.destIndex
                    ELSE dbCards'[c] = dbCards[c]]_vars

\* The first update of a move of card 1 from A index 0 to B index 1 has been
\* applied and the second is awaited: the row has the new board and the new
\* position.
C24_Witness ==
    \E s \in DOMAIN tasks :
        /\ tasks[s].kind = "move"
        /\ tasks[s].pc = 2
        /\ ~tasks[s].loc.failed
        /\ tasks[s].loc.cardId = 1
        /\ tasks[s].loc.sourceBoard = "A"
        /\ tasks[s].loc.sourceIndex = 0
        /\ tasks[s].loc.destBoard = "B"
        /\ tasks[s].loc.destIndex = 1
        /\ dbCards[1].board_id = "B"
        /\ dbCards[1].position = 1
        /\ ops = 1


\* C27, as claimed: when a second move was started while the updates of an
\* earlier move were pending, once both have completed with every update
\* succeeding, the cards of the store grouped by board and ordered by position
\* are the sequences in memory and the stored positions of every board are
\* 0 .. count-1.
C27_OverlappingMovesConverge ==
    (AllIdle /\ ~loading /\ failures = 0 /\ ops = MaxOps)
    => /\ MatchesStore(cards, heap, dbCards)
       /\ \A b \in BoardIds : Dense(b)


\* C28, as claimed: the completion of createCard changes the cards in memory
\* only by appending the new card to the sequence of its board; the sequences
\* of the other boards and the cards already in that sequence are what they
\* were immediately before the completion, also when a move was applied while
\* the insert was awaited.
C28_CreateCompletionKeepsMoves ==
    [][\A s \in DOMAIN tasks :
          (tasks[s].kind = "create" /\ tasks'[s].kind = "idle" /\ dbCards' # dbCards)
          => LET b == tasks[s].loc.selectedBoardId
             IN  /\ \A d \in BoardIds \ {b} : cards'[d] = cards[d]
                 /\ Len(cards'[b]) = Len(cards[b]) + 1
                 /\ SubSeq(cards'[b], 1, Len(cards[b])) = cards[b]]_vars


\* C29, as claimed: once the addTag or removeTag calls of the modal have
\* completed, the tag list the modal shows is the stored tag list of the
\* card, also when the write failed.
C29_ShownTagsAreStoredTags ==
    (AllIdle /\ showCardDetail /\ selectedCard \in DOMAIN dbCards)
    => tags = dbCards[selectedCard].tags


\* The step is the return of the update of a field edit of the modal, a tags
\* task or a due date task, in slot s.
EditReturns(s) ==
    /\ tasks[s].kind \in {"tags", "dueDate"}
    /\ tasks'[s] # tasks[s]

\* C21: the field edits of the card detail modal never change a stored
\* position or board reference.  A tag edit and a due date edit each await
\* one update; the step that applies it changes no row but that of the edited
\* card, there only the tags (a tag edit) or only the due date (a due date
\* edit), and the call is over when that update has returned.
C21_FieldEditsKeepPositionAndBoard ==
    [][\A s \in DOMAIN tasks :
          EditReturns(s)
          => LET id == tasks[s].loc.cardId
             IN  /\ tasks'[s].kind \notin {"tags", "dueDate"}
                 /\ dbBoards' = dbBoards
                 /\ dbComments' = dbComments
                 /\ DOMAIN dbCards' = DOMAIN dbCards
                 /\ \A c \in DOMAIN dbCards :
                       /\ dbCards'[c].position = dbCards[c].position
                       /\ dbCards'[c].board_id = dbCards[c].board_id
                       /\ c # id => dbCards'[c] = dbCards[c] /\ dbDue'[c] = dbDue[c]
                 /\ tasks[s].kind = "tags"
                    => /\ dbDue' = dbDue
                       /\ dbCards'[id].tags \in {dbCards[id].tags, tasks[s].loc.newTags}
                 /\ tasks[s].kind = "dueDate"
                    => /\ dbCards' = dbCards
                       /\ dbDue'[id] \in {dbDue[id], ToISOString(tasks[s].loc.date)}]_vars

\* A tag and a due date have been stored for card 1, which is still the first
\* card of board A.
C21_Witness ==
    /\ dbCards[1] = [board_id |-> "A", position |-> 0, tags |-> <<"a">>]
    /\ dbDue[1] = ToISOString("d")
    /\ ops = 2


\* C30: updateDueDate shows the picked date and calls the reload only after
\* its update has succeeded.  The call itself leaves the shown date alone;
\* when the update succeeds the date is stored, shown, and fetchBoards is
\* started; when it fails the shown date and the store stay as they were, no
\* load is started and the error is shown in a toast.  Nothing else changes
\* the shown date but the opening of another card.
C30_DueDateShownAfterSuccess ==
    [][/\ \A s \in DOMAIN tasks :
             /\ (tasks[s].kind = "idle" /\ tasks'[s].kind = "dueDate")
                => /\ dueDate' = dueDate
                   /\ \A t \in DOMAIN tasks \ {s} : tasks'[t] = tasks[t]
             /\ (tasks[s].kind = "dueDate" /\ tasks'[s] # tasks[s])
                => IF failures' = failures
                   THEN /\ dbDue'[tasks[s].loc.cardId] = ToISOString(tasks[s].loc.date)
                        /\ dueDate' = tasks[s].loc.date
                        /\ tasks'[s] = FetchTask
                   ELSE /\ dueDate' = dueDate
                        /\ dbDue' = dbDue
                        /\ tasks'[s] = Idle
                        /\ \A t \in DOMAIN tasks \ {s} : tasks'[t] = tasks[t]
                        /\ toast' = "error.message"
       /\ dueDate' # dueDate
          => \/ selectedCard' # selectedCard
             \/ \E s \in DOMAIN tasks :
                   /\ tasks[s].kind = "dueDate"
                   /\ tasks'[s] = FetchTask
                   /\ failures' = failures]_vars

\* A first due date was stored and is shown; the update of a second one has
\* failed: the modal still shows the first, which is what the store holds.
C30_Witness ==
    /\ showCardDetail
    /\ dueDate = "d"
    /\ dbDue[1] = ToISOString("d")
    /\ toast = "error.message"
    /\ failures = 1
    /\ ops = 2
    /\ tags = <<>>
    /\ dbCards[1].tags = <<>>


\* C22: comments are append-only.  Every step leaves the stored comments as
\* they were or adds one row at the end; a row is added only by the return of
\* the insert of an addComment that was called with text that is not blank,
\* and the row carries the id of the card the modal showed at the call, the
\* id of the user and the text; addComment called with blank text starts no
\* store call.
C22_CommentsAppendOnly ==
    [][/\ \/ dbComments' = dbComments
          \/ \E s \in DOMAIN tasks :
                /\ tasks[s].kind = "comment"
                /\ tasks'[s] # tasks[s]
                /\ dbComments' = Append(dbComments, tasks[s].loc.row)
       /\ \A s \in DOMAIN tasks :
             (tasks[s].kind = "idle" /\ tasks'[s].kind = "comment")
             => /\ Trim(newComment) # ""
                /\ selectedCard \in DOMAIN dbCards
                /\ tasks'[s].loc.row = [card_id |-> selectedCard,
                                        user_id |-> UserId,
                                        content |-> newComment]
       /\ (event'.type = "addComment" /\ Trim(newComment) = "")
          => /\ tasks' = tasks
             /\ dbComments' = dbComments]_vars

\* A comment has been stored for card 2 and the modal, still on card 2, shows
\* it; then addComment was called with a blank text and returned at once.
C22_Witness ==
    /\ dbComments = <<[card_id |-> 2, user_id |-> UserId, content |-> "c"]>>
    /\ selectedCard = 2
    /\ comments = dbComments
    /\ event.type = "addComment"
    /\ newComment = " "
    /\ AllIdle


\* Two cards of one board have the same stored position.
StoredTie(c, d) ==
    /\ c # d
    /\ dbCards[c].board_id = dbCards[d].board_id
    /\ dbCards[c].position = dbCards[d].position

\* C25: the updates of a move reach the store one row at a step, and a second
\* viewer whose load returns between two of them gets the rows as they are at
\* that moment: its sequences are the stored cards grouped by board in the
\* order of their stored positions, and its card objects hold the stored
\* board and position, equal positions included.
C25_ViewerLoadsStoreAsItIs ==
    [][/\ Cardinality({c \in DOMAIN dbCards : dbCards'[c] # dbCards[c]}) <= 1
       /\ (viewer.pc = 2 /\ viewer'.pc = 3)
          => /\ MatchesStore(viewer'.cards, viewer'.heap, dbCards)
             /\ \A b \in BoardIds :
                   \A k \in 1 .. Len(viewer'.cards[b]) :
                       LET card == viewer'.heap[viewer'.cards[b][k]]
                       IN  /\ card.board_id = dbCards[card.id].board_id
                           /\ card.position = dbCards[card.id].position]_vars

\* A move has had its first update applied and awaits a later one; two cards
\* of one board have the same stored position, and the second viewer has
\* loaded both, side by side in one sequence, with that same position.
C25_Witness ==
    /\ \E s \in DOMAIN tasks :
          /\ tasks[s].kind = "move"
          /\ tasks[s].pc >= 2
    /\ viewer.pc = 3
    /\ \E c, d \in DOMAIN dbCards :
          /\ StoredTie(c, d)
          /\ \E k \in 1 .. Len(viewer.cards[dbCards[c].board_id]) - 1 :
                LET seq == viewer.cards[dbCards[c].board_id]
                IN  /\ viewer.heap[seq[k]].id = c
                    /\ viewer.heap[seq[k + 1]].id = d
                    /\ viewer.heap[seq[k]].position = dbCards[c].position
                    /\ viewer.heap[seq[k + 1]].position = dbCards[c].position


\* C26, as claimed: for every drag-end that is applied, also one that reports
\* a source index the card no longer has, the card taken out of the source
\* sequence and put into the destination sequence is the card the event
\* names, the one the first update writes, and the position written for it
\* is the index it has in the destination sequence.
C26_MovedCardIsTheNamedCard ==
    [][\A s \in DOMAIN tasks :
          MoveStarts(s)
          => LET loc == tasks'[s].loc
                 first == loc.issued[1]
             IN  /\ first.id = drag.draggableId
                 /\ heap'[loc.movedCard].id = first.id
                 /\ first.fields.position + 1 \in 1 .. Len(cards'[loc.destBoard])
                 /\ heap'[cards'[loc.destBoard][first.fields.position + 1]].id = first.id
                 /\ \A b \in BoardIds :
                       Ids(Without(cards'[b], loc.movedCard), heap')
                           = SelectSeq(Ids(cards[b], heap), LAMBDA c : c # first.id)]_vars

====
